---------------------------- MODULE Spec2Model ----------------------------
(***************************************************************************)
(* A model of lib/models/room-state.js: the RoomState store of one room.   *)
(* The store folds state events into a two-level index (type, state key),  *)
(* derives one member record per m.room.member state key, projects the     *)
(* m.room.power_levels event onto the members and replaces the members'    *)
(* typing flags on every m.typing signal.                                  *)
(*                                                                         *)
(* Events are records.  A state event has a stateKey field, a timeline     *)
(* event has none (state_key === undefined).  A JavaScript number that is  *)
(* a quotient (powerLevelNorm) is kept as an exact reduced fraction.       *)
(***************************************************************************)
EXTENDS Integers, Sequences, FiniteSets, TLC

VARIABLES roomId, members, stateEvents, paginationToken, log, failure

vars == <<roomId, members, stateEvents, paginationToken, log, failure>>

(***************************************************************************)
(* Bounds of the model.  log is a history variable: the events delivered   *)
(* so far, in delivery order, each tagged with the operation it was given  *)
(* to.  The number of delivered events is capped.                          *)
(***************************************************************************)
MaxLog == 3

MaxBatch == 2

MaxProjLog == 3

(***************************************************************************)
(* The values the events are built from.                                   *)
(***************************************************************************)
ThisRoom == "!r:x"

OtherRoom == "!o:x"

Rooms == {ThisRoom, OtherRoom}

UserA == "@a:x"

UserB == "@b:x"

UserC == "@c:x"

Users == {UserA, UserB}

Null == [null |-> TRUE]

StateEv(room, type, key, content) ==
    [roomId |-> room, type |-> type, stateKey |-> key, content |-> content]

TimelineEv(room, type, content) ==
    [roomId |-> room, type |-> type, content |-> content]

(***************************************************************************)
(* The accessors of an event.                                              *)
(***************************************************************************)
getRoomId(event) == event.roomId

getType(event) == event.type

getContent(event) == event.content

isState(event) == "stateKey" \in DOMAIN event

getStateKey(event) == event.stateKey

(***************************************************************************)
(* Numbers.  A quotient is an exact fraction in lowest terms with den > 0; *)
(* x || y on levels takes y when x is undefined or 0.                      *)
(***************************************************************************)
Abs(n) == IF n < 0 THEN -n ELSE n

RECURSIVE GCD(_, _)
GCD(a, b) == IF b = 0 THEN a ELSE GCD(b, a % b)

Num(n) == [num |-> n, den |-> 1]

Quot(n, d) ==
    LET g == GCD(Abs(n), d)
    IN  [num |-> n \div g, den |-> d \div g]

Max2(a, b) == IF a >= b THEN a ELSE b

RECURSIVE MaxOver(_, _)
MaxOver(start, S) ==
    IF S = {} THEN start
    ELSE LET x == CHOOSE y \in S : TRUE
         IN  MaxOver(Max2(start, x), S \ {x})

(***************************************************************************)
(* new RoomMember(event): the record of a member as it is constructed.     *)
(***************************************************************************)
NewRoomMember(event) ==
    [userId |-> getStateKey(event),
     typing |-> FALSE,
     powerLevel |-> 0,
     powerLevelNorm |-> Num(0)]

(***************************************************************************)
(* utils.values(obj): the values of a dictionary, one per key, as a list.  *)
(* The order of the list is not part of the model.                         *)
(***************************************************************************)
RECURSIVE valuesOver(_, _)
valuesOver(obj, keys) ==
    IF keys = {} THEN << >>
    ELSE LET k == CHOOSE x \in keys : TRUE
         IN  <<obj[k]>> \o valuesOver(obj, keys \ {k})

values(obj) == valuesOver(obj, DOMAIN obj)

getMembers(mem) == values(mem)

(***************************************************************************)
(* getStateEvents(eventType, stateKey) with a state key given.             *)
(***************************************************************************)
getStateEvents(se, eventType, stateKey) ==
    IF eventType \notin DOMAIN se THEN Null
    ELSE IF stateKey \in DOMAIN se[eventType]
         THEN se[eventType][stateKey]
         ELSE Null

(***************************************************************************)
(* getStateEvents(eventType) with no state key: all events of the type.    *)
(***************************************************************************)
getStateEventsOfType_NullForUnknown(se, eventType) ==
    IF eventType \notin DOMAIN se THEN Null
    ELSE values(se[eventType])

getStateEventsOfType(se, eventType) ==
    IF eventType \notin DOMAIN se THEN << >>
    ELSE values(se[eventType])

(***************************************************************************)
(* _setPowerLevel(powerLevelEvent, roomMember).                            *)
(***************************************************************************)
usersDefaultOr0(content) ==
    IF "users_default" \in DOMAIN content /\ content.users_default # 0
    THEN content.users_default
    ELSE 0

maxLevelOf_UsersOnly(powerLevelEvent) ==
    LET content == getContent(powerLevelEvent)
    IN  MaxOver(0, {content.users[u] : u \in DOMAIN content.users})

maxLevelOf(powerLevelEvent) ==
    LET content == getContent(powerLevelEvent)
    IN  MaxOver(usersDefaultOr0(content),
                {content.users[u] : u \in DOMAIN content.users})

powerLevelOf(powerLevelEvent, userId) ==
    LET content == getContent(powerLevelEvent)
    IN  IF userId \in DOMAIN content.users /\ content.users[userId] # 0
        THEN content.users[userId]
        ELSE usersDefaultOr0(content)

powerLevelNormOf_IntDiv(powerLevel, maxLevel) ==
    IF maxLevel > 0 THEN Num((powerLevel * 100) \div maxLevel) ELSE Num(0)

powerLevelNormOf(powerLevel, maxLevel) ==
    IF maxLevel > 0 THEN Quot(powerLevel * 100, maxLevel) ELSE Num(0)

setPowerLevel_Accumulate(powerLevelEvent, roomMember) ==
    LET maxLevel == maxLevelOf(powerLevelEvent)
        powerLevel == roomMember.powerLevel
                        + powerLevelOf(powerLevelEvent, roomMember.userId)
    IN  [roomMember EXCEPT
            !.powerLevel = powerLevel,
            !.powerLevelNorm = powerLevelNormOf(powerLevel, maxLevel)]

setPowerLevel(powerLevelEvent, roomMember) ==
    LET maxLevel == maxLevelOf(powerLevelEvent)
        powerLevel == powerLevelOf(powerLevelEvent, roomMember.userId)
    IN  [roomMember EXCEPT
            !.powerLevel = powerLevel,
            !.powerLevelNorm = powerLevelNormOf(powerLevel, maxLevel)]

(***************************************************************************)
(* The body of the forEach callback of setStateEvents, for one event, on   *)
(* the store st = [stateEvents, members] of the room rid.                  *)
(***************************************************************************)
skipEvent_AnyRoom(rid, event) == ~isState(event)

skipEvent(rid, event) == getRoomId(event) # rid \/ ~isState(event)

indexEvent_KeepFirst(se, event) ==
    LET type == getType(event)
        slot == IF type \in DOMAIN se THEN se[type] ELSE << >>
        key  == getStateKey(event)
    IN  [t \in DOMAIN se \cup {type} |->
            IF t = type
            THEN [k \in DOMAIN slot \cup {key} |->
                    IF k \in DOMAIN slot THEN slot[k] ELSE event]
            ELSE se[t]]

indexEvent(se, event) ==
    LET type == getType(event)
        slot == IF type \in DOMAIN se THEN se[type] ELSE << >>
        key  == getStateKey(event)
    IN  [t \in DOMAIN se \cup {type} |->
            IF t = type
            THEN [k \in DOMAIN slot \cup {key} |->
                    IF k = key THEN event ELSE slot[k]]
            ELSE se[t]]

currentPowerLevels_None(se) == Null

currentPowerLevels(se) == getStateEvents(se, "m.room.power_levels", "")

memberEvent_NotStored(se, mem, event) == mem

memberEvent_DropOnLeave(se, mem, event) ==
    LET member == NewRoomMember(event)
        pwrLvlEvent == currentPowerLevels(se)
        projected == IF pwrLvlEvent # Null
                     THEN setPowerLevel(pwrLvlEvent, member)
                     ELSE member
        key == getStateKey(event)
    IN  IF getContent(event).membership = "leave"
        THEN [u \in DOMAIN mem \ {key} |-> mem[u]]
        ELSE [u \in DOMAIN mem \cup {key} |->
                IF u = key THEN projected ELSE mem[u]]

memberEvent(se, mem, event) ==
    LET member == NewRoomMember(event)
        pwrLvlEvent == currentPowerLevels(se)
        projected == IF pwrLvlEvent # Null
                     THEN setPowerLevel(pwrLvlEvent, member)
                     ELSE member
        key == getStateKey(event)
    IN  [u \in DOMAIN mem \cup {key} |->
            IF u = key THEN projected ELSE mem[u]]

powerLevelsEvent(mem, event) ==
    [u \in DOMAIN mem |-> setPowerLevel(event, mem[u])]

foldEvent_AllAreMembers(rid, st, event) ==
    IF skipEvent(rid, event) THEN st
    ELSE LET se == indexEvent(st.stateEvents, event)
         IN  [stateEvents |-> se,
              members |->
                 IF getType(event) # "m.room.power_levels"
                 THEN memberEvent(se, st.members, event)
                 ELSE powerLevelsEvent(st.members, event)]

foldEvent(rid, st, event) ==
    IF skipEvent(rid, event) THEN st
    ELSE LET se == indexEvent(st.stateEvents, event)
         IN  [stateEvents |-> se,
              members |->
                 IF getType(event) = "m.room.member"
                 THEN memberEvent(se, st.members, event)
                 ELSE IF getType(event) = "m.room.power_levels"
                      THEN powerLevelsEvent(st.members, event)
                      ELSE st.members]

RECURSIVE foldAll_StopAtSkipped(_, _, _)
foldAll_StopAtSkipped(rid, st, events) ==
    IF events = << >> THEN st
    ELSE IF skipEvent(rid, Head(events)) THEN st
    ELSE foldAll_StopAtSkipped(rid, foldEvent(rid, st, Head(events)), Tail(events))

RECURSIVE foldAll(_, _, _)
foldAll(rid, st, events) ==
    IF events = << >> THEN st
    ELSE foldAll(rid, foldEvent(rid, st, Head(events)), Tail(events))

(***************************************************************************)
(* setTypingEvent(event): the type check, the reset and the marking.       *)
(***************************************************************************)
notTypingEvent_Never(event) == FALSE

notTypingEvent(event) == getType(event) # "m.typing"

isArray(v) == v.kind = "array"

resetTyping_None(mem) == mem

resetTyping(mem) == [u \in DOMAIN mem |-> [mem[u] EXCEPT !.typing = FALSE]]

markTyping_StopAtUnknown(mem, typingList) ==
    [u \in DOMAIN mem |->
        IF \E i \in 1..Len(typingList) :
              /\ typingList[i] = u
              /\ \A j \in 1..i : typingList[j] \in DOMAIN mem
        THEN [mem[u] EXCEPT !.typing = TRUE]
        ELSE mem[u]]

markTyping(mem, typingList) ==
    [u \in DOMAIN mem |->
        IF \E i \in 1..Len(typingList) : typingList[i] = u
        THEN [mem[u] EXCEPT !.typing = TRUE]
        ELSE mem[u]]

typingMembers_BailBeforeReset(mem, event) ==
    LET typingList == getContent(event).user_ids
    IN  IF ~isArray(typingList) THEN mem
        ELSE markTyping(resetTyping(mem), typingList.items)

typingMembers(mem, event) ==
    LET reset == resetTyping(mem)
        typingList == getContent(event).user_ids
    IN  IF ~isArray(typingList) THEN reset
        ELSE markTyping(reset, typingList.items)

(***************************************************************************)
(* The operations of the store.  U is the set the delivered events are     *)
(* drawn from and cap the number of events that may be delivered.          *)
(***************************************************************************)
LogOf(op, events) == [i \in 1..Len(events) |-> [op |-> op, event |-> events[i]]]

Min2(a, b) == IF a <= b THEN a ELSE b

setStateEvents(U, cap) ==
    \E n \in 1..Min2(MaxBatch, cap - Len(log)) :
      \E events \in [1..n -> U] :
        LET st == foldAll(roomId,
                          [stateEvents |-> stateEvents, members |-> members],
                          events)
        IN  /\ stateEvents' = st.stateEvents
            /\ members' = st.members
            /\ log' = log \o LogOf("setStateEvents", events)
            /\ failure' = "none"
            /\ UNCHANGED <<roomId, paginationToken>>

setTypingEvent(U, cap) ==
    /\ Len(log) < cap
    /\ \E event \in U :
        /\ log' = log \o LogOf("setTypingEvent", <<event>>)
        /\ IF notTypingEvent(event)
           THEN /\ failure' = "invalid-argument"
                /\ UNCHANGED members
           ELSE /\ failure' = "none"
                /\ members' = typingMembers(members, event)
        /\ UNCHANGED <<roomId, stateEvents, paginationToken>>

(***************************************************************************)
(* The events of the general specification: membership, topic and          *)
(* power-levels events of this room and of another room, with and without  *)
(* a state key, and typing signals of every shape.                         *)
(***************************************************************************)
Array(items) == [kind |-> "array", items |-> items]

NotAList == [kind |-> "string", value |-> "not-a-list"]

PLContent(users, dflt) == [users |-> users, users_default |-> dflt]

PLContentNoDefault(users) == [users |-> users]

AdminA == PLContentNoDefault((UserA :> 100))

StateEvents ==
    {StateEv(r, "m.room.member", u, [membership |-> m]) :
        r \in Rooms, u \in Users, m \in {"join", "leave"}}
    \cup {TimelineEv(ThisRoom, "m.room.member", [membership |-> "join"])}
    \cup {StateEv(r, "m.room.topic", "", [topic |-> t]) :
        r \in Rooms, t \in {"t1", "t2"}}
    \cup {TimelineEv(ThisRoom, "m.room.topic", [topic |-> t]) :
        t \in {"t1", "t2"}}
    \cup {StateEv(r, "m.room.power_levels", "", AdminA) : r \in Rooms}
    \cup {TimelineEv(ThisRoom, "m.room.power_levels", AdminA)}

TypingEvents ==
    {TimelineEv(ThisRoom, "m.typing", [user_ids |-> ids]) :
        ids \in {NotAList, Array(<< >>), Array(<<UserA>>),
                 Array(<<UserA, UserB>>), Array(<<UserC, UserB>>)}}
    \cup {TimelineEv(ThisRoom, "m.room.topic", [user_ids |-> Array(<<UserA>>)])}
    \cup {TimelineEv(OtherRoom, "m.typing", [user_ids |-> Array(<<UserA>>)])}

(***************************************************************************)
(* The general specification: the store after construction, then any       *)
(* calls of setStateEvents and setTypingEvent.                             *)
(***************************************************************************)
Init ==
    /\ roomId = ThisRoom
    /\ members = << >>
    /\ stateEvents = << >>
    /\ paginationToken = "null"
    /\ log = << >>
    /\ failure = "none"

Next ==
    \/ setStateEvents(StateEvents, MaxLog)
    \/ setTypingEvent(TypingEvents, MaxLog)

Spec == Init /\ [][Next]_vars

(***************************************************************************)
(* The power-levels specification: membership events of two users and      *)
(* m.room.power_levels events at the state keys "" and "k", with explicit  *)
(* levels that are zero, negative, below and above users_default.          *)
(***************************************************************************)
PLContents ==
    {PLContentNoDefault((UserA :> 100)),
     PLContent((UserA :> 50) @@ (UserB :> 100), 0),
     PLContent((UserA :> 0), 50),
     PLContentNoDefault((UserA :> -50) @@ (UserB :> 50)),
     PLContent((UserB :> 50), 100)}

PLStateEvents ==
    {StateEv(ThisRoom, "m.room.member", u, [membership |-> "join"]) : u \in Users}
    \cup {StateEv(ThisRoom, "m.room.power_levels", k, c) :
            k \in {"", "k"}, c \in PLContents}
    \cup {StateEv(OtherRoom, "m.room.power_levels", "", PLContent((UserB :> 50), 100))}

NextPL == setStateEvents(PLStateEvents, MaxLog)

SpecPL == Init /\ [][NextPL]_vars

(***************************************************************************)
(* The projector specification: a room whose two users have joined, then   *)
(* power-levels events drawn from every mapping of the users to a level    *)
(* and every users_default, present or absent.                             *)
(***************************************************************************)
Levels == {-50, 0, 50, 75, 100}

UserLevels == UNION {[S -> Levels] : S \in SUBSET Users}

ProjContents ==
    {PLContentNoDefault(users) : users \in UserLevels}
    \cup {PLContent(users, d) : users \in UserLevels, d \in Levels}

JoinOf(u) == StateEv(ThisRoom, "m.room.member", u, [membership |-> "join"])

ProjEvents ==
    {JoinOf(u) : u \in Users}
    \cup {StateEv(ThisRoom, "m.room.power_levels", "", c) : c \in ProjContents}

Joined == <<JoinOf(UserA), JoinOf(UserB)>>

InitProj ==
    LET st == foldAll(ThisRoom, [stateEvents |-> << >>, members |-> << >>], Joined)
    IN  /\ roomId = ThisRoom
        /\ members = st.members
        /\ stateEvents = st.stateEvents
        /\ paginationToken = "null"
        /\ log = LogOf("setStateEvents", Joined)
        /\ failure = "none"

NextProj == setStateEvents(ProjEvents, MaxProjLog)

SpecProj == InitProj /\ [][NextProj]_vars

(***************************************************************************)
(* What the history says, computed from log alone.                         *)
(***************************************************************************)
Last(s) == s[Len(s)]

MaxOf(S) == CHOOSE x \in S : \A y \in S : x >= y

Delivered(i) == log[i].event

IsAcceptedAt(i) ==
    /\ log[i].op = "setStateEvents"
    /\ Delivered(i).roomId = ThisRoom
    /\ "stateKey" \in DOMAIN Delivered(i)

SlotIndices(type, key) ==
    {i \in 1..Len(log) :
        /\ IsAcceptedAt(i)
        /\ Delivered(i).type = type
        /\ Delivered(i).stateKey = key}

IsTypingSignalAt(i) ==
    /\ log[i].op = "setTypingEvent"
    /\ Delivered(i).type = "m.typing"

TypingSignalIndices == {i \in 1..Len(log) : IsTypingSignalAt(i)}

ListedIn(event) ==
    IF event.content.user_ids.kind = "array"
    THEN {event.content.user_ids.items[i] :
            i \in 1..Len(event.content.user_ids.items)}
    ELSE {}

TypingNow == {u \in DOMAIN members : members[u].typing}

SeenTypes == {"m.room.member", "m.room.topic", "m.room.power_levels", "m.typing"}

SeenKeys == Users \cup {"", "k", UserC}

(***************************************************************************)
(* C1, last write wins: for every (type, key), getStateEvents(type, key)   *)
(* is the last delivered event among the accepted ones (this room, a state *)
(* event) of that type and key, and null when there is none.               *)
(***************************************************************************)
C1_LastWriteWins ==
    \A type \in SeenTypes, key \in SeenKeys :
        getStateEvents(stateEvents, type, key) =
            IF SlotIndices(type, key) = {} THEN Null
            ELSE Delivered(MaxOf(SlotIndices(type, key)))

C1_Witness ==
    /\ Len(log) = 3
    /\ IsAcceptedAt(1) /\ IsAcceptedAt(2) /\ IsAcceptedAt(3)
    /\ Delivered(1).type = "m.room.topic"
    /\ Delivered(2).type = "m.room.member"
    /\ Delivered(3).type = "m.room.topic"
    /\ Delivered(1) # Delivered(3)
    /\ getStateEvents(stateEvents, "m.room.topic", "") = Delivered(3)

(***************************************************************************)
(* C3, as claimed: once a typing signal has been folded, the members that  *)
(* are typing are exactly the users listed by the most recent typing       *)
(* signal that are members now, whatever was folded after the signal.      *)
(***************************************************************************)
C3_TypingIsLastSignal ==
    (\E i \in TypingSignalIndices : Delivered(i).content.user_ids.kind = "array")
    => TypingNow =
         ListedIn(Delivered(MaxOf(TypingSignalIndices))) \cap DOMAIN members

(***************************************************************************)
(* C4, typing replaces: right after setTypingEvent with a list of user     *)
(* ids, a member is typing if and only if its user id is in the list.      *)
(***************************************************************************)
TypingCall ==
    /\ Len(log') = Len(log) + 1
    /\ Last(log').op = "setTypingEvent"

C4_TypingReplaces ==
    [][(/\ TypingCall
        /\ Last(log').event.type = "m.typing"
        /\ Last(log').event.content.user_ids.kind = "array")
       => \A u \in DOMAIN members' :
            members'[u].typing <=>
                members'[u].userId \in ListedIn(Last(log').event)]_vars

C4_Witness ==
    /\ Len(log) = 3
    /\ IsTypingSignalAt(2) /\ IsTypingSignalAt(3)
    /\ UserA \in ListedIn(Delivered(2))
    /\ Delivered(3).content.user_ids.kind = "array"
    /\ UserA \notin ListedIn(Delivered(3))
    /\ UserA \in DOMAIN members
    /\ ~members[UserA].typing

(***************************************************************************)
(* C5, wrong type: setTypingEvent with an event that is not m.typing fails *)
(* with an invalid argument and leaves members, stateEvents and            *)
(* paginationToken as they were.                                           *)
(***************************************************************************)
C5_WrongTypeFails ==
    [][(TypingCall /\ Last(log').event.type # "m.typing")
       => /\ failure' = "invalid-argument"
          /\ members' = members
          /\ stateEvents' = stateEvents
          /\ paginationToken' = paginationToken]_vars

C5_Witness ==
    /\ Len(log) = 3
    /\ log[3].op = "setTypingEvent"
    /\ Delivered(3).type # "m.typing"
    /\ UserA \in ListedIn(Delivered(3))
    /\ failure = "invalid-argument"
    /\ UserB \in DOMAIN members /\ members[UserB].typing

(***************************************************************************)
(* C6, malformed list: setTypingEvent with an m.typing event whose         *)
(* user_ids is not a list does not fail and leaves no member typing.       *)
(***************************************************************************)
C6_MalformedListResets ==
    [][(/\ TypingCall
        /\ Last(log').event.type = "m.typing"
        /\ Last(log').event.content.user_ids.kind # "array")
       => /\ failure' = "none"
          /\ \A u \in DOMAIN members' : ~members'[u].typing]_vars

C6_Witness ==
    /\ Len(log) = 3
    /\ IsAcceptedAt(1)
    /\ IsTypingSignalAt(2) /\ UserA \in ListedIn(Delivered(2))
    /\ IsTypingSignalAt(3) /\ Delivered(3).content.user_ids.kind # "array"
    /\ UserA \in DOMAIN members /\ ~members[UserA].typing
    /\ failure = "none"

(***************************************************************************)
(* C7, skipped events: an event of another room, or one that is not a      *)
(* state event, changes nothing.  A call of setStateEvents leaves the      *)
(* store as the same call without the skipped events would and raises no   *)
(* failure, and a call with skipped events only leaves stateEvents and     *)
(* members unchanged.                                                      *)
(***************************************************************************)
NewEntries == SubSeq(log', Len(log) + 1, Len(log'))

IsSkipped(entry) ==
    \/ entry.event.roomId # ThisRoom
    \/ "stateKey" \notin DOMAIN entry.event

KeptEvents(entries) ==
    LET kept == SelectSeq(entries, LAMBDA x : ~IsSkipped(x))
    IN  [i \in 1..Len(kept) |-> kept[i].event]

C7_SkippedChangesNothing ==
    [][(Len(log') > Len(log) /\ Last(log').op = "setStateEvents")
       => /\ failure' = "none"
          /\ [stateEvents |-> stateEvents', members |-> members'] =
               foldAll(ThisRoom,
                       [stateEvents |-> stateEvents, members |-> members],
                       KeptEvents(NewEntries))
          /\ (\A i \in 1..Len(NewEntries) : IsSkipped(NewEntries[i]))
               => (stateEvents' = stateEvents /\ members' = members)]_vars

C7_Witness ==
    /\ Len(log) = 3
    /\ IsAcceptedAt(1) /\ Delivered(1).type = "m.room.member"
    /\ Delivered(1).stateKey = UserA
    /\ log[2].op = "setStateEvents" /\ Delivered(2).type = "m.room.member"
    /\ Delivered(2).roomId = OtherRoom /\ Delivered(2).stateKey = UserB
    /\ log[3].op = "setStateEvents"
    /\ Delivered(3).type = "m.room.power_levels"
    /\ "stateKey" \notin DOMAIN Delivered(3)
    /\ DOMAIN members = {UserA}
    /\ members[UserA].powerLevel = 0
    /\ DOMAIN stateEvents = {"m.room.member"}

(***************************************************************************)
(* What the history says about power levels, computed from log alone.      *)
(***************************************************************************)
PowerLevelIndices ==
    {i \in 1..Len(log) :
        IsAcceptedAt(i) /\ Delivered(i).type = "m.room.power_levels"}

LevelsIn(content) ==
    {content.users[u] : u \in DOMAIN content.users}
    \cup (IF "users_default" \in DOMAIN content
          THEN {content.users_default} ELSE {0})

ClaimedMaxLevel(content) == MaxOf(LevelsIn(content))

ClaimedPowerLevel(content, userId) ==
    IF userId \in DOMAIN content.users THEN content.users[userId]
    ELSE IF "users_default" \in DOMAIN content THEN content.users_default
    ELSE 0

NonNegative(content) ==
    /\ \A u \in DOMAIN content.users : content.users[u] >= 0
    /\ "users_default" \in DOMAIN content => content.users_default >= 0

AppliedIndex(u) ==
    LET m == MaxOf(SlotIndices("m.room.member", u))
        after == {i \in PowerLevelIndices : i > m}
        before == {i \in PowerLevelIndices : i < m /\ Delivered(i).stateKey = ""}
    IN  IF after # {} THEN MaxOf(after)
        ELSE IF before # {} THEN MaxOf(before)
        ELSE 0

(***************************************************************************)
(* C2, as claimed: every member carries the projection of the most         *)
(* recently folded m.room.power_levels event, whatever its state key, or   *)
(* powerLevel 0 and powerLevelNorm 0 when none has been folded.            *)
(***************************************************************************)
C2_MembersReflectLastPowerLevels ==
    \A u \in DOMAIN members :
        IF PowerLevelIndices = {}
        THEN members[u].powerLevel = 0 /\ members[u].powerLevelNorm = Num(0)
        ELSE members[u] =
               setPowerLevel(Delivered(MaxOf(PowerLevelIndices)), members[u])

(***************************************************************************)
(* C8, as claimed: a member's powerLevel is the explicit level of its user *)
(* id whenever content.users has one (a level of 0 included), otherwise    *)
(* users_default if present, otherwise 0.                                  *)
(***************************************************************************)
C8_ExplicitLevelWins ==
    PowerLevelIndices # {} =>
        \A u \in DOMAIN members :
            members[u].powerLevel =
                ClaimedPowerLevel(Delivered(MaxOf(PowerLevelIndices)).content,
                                  members[u].userId)

(***************************************************************************)
(* C9, the normalised level: with maxLevel the maximum of users_default    *)
(* (0 if absent) and the levels of content.users, powerLevelNorm is 0 when *)
(* maxLevel <= 0 and powerLevel * 100 / maxLevel otherwise.                *)
(***************************************************************************)
C9_NormIsShareOfMax ==
    PowerLevelIndices # {} =>
        \A u \in DOMAIN members :
            LET maxLevel ==
                    ClaimedMaxLevel(Delivered(MaxOf(PowerLevelIndices)).content)
                norm == members[u].powerLevelNorm
            IN  /\ norm.den > 0
                /\ IF maxLevel <= 0 THEN norm.num = 0
                   ELSE norm.num * maxLevel =
                            members[u].powerLevel * 100 * norm.den

C9_Witness ==
    /\ PowerLevelIndices # {}
    /\ Delivered(MaxOf(PowerLevelIndices)).content =
          PLContent((UserA :> 50) @@ (UserB :> 100), 0)
    /\ members[UserA].powerLevelNorm = Num(50)
    /\ members[UserB].powerLevelNorm = Num(100)

(***************************************************************************)
(* C10, the range: while every folded power-levels event carries only      *)
(* non-negative levels, every member's powerLevelNorm is in [0, 100] and   *)
(* its powerLevel is at most the maxLevel of the power-levels event last   *)
(* applied to it.                                                          *)
(***************************************************************************)
C10_NormInRange ==
    (\A i \in PowerLevelIndices : NonNegative(Delivered(i).content))
    => \A u \in DOMAIN members :
          /\ members[u].powerLevelNorm.den > 0
          /\ 0 <= members[u].powerLevelNorm.num
          /\ members[u].powerLevelNorm.num <= 100 * members[u].powerLevelNorm.den
          /\ AppliedIndex(u) # 0 =>
               members[u].powerLevel <=
                   ClaimedMaxLevel(Delivered(AppliedIndex(u)).content)

C10_Witness ==
    /\ Len(log) = 3
    /\ PowerLevelIndices = {1}
    /\ NonNegative(Delivered(1).content)
    /\ DOMAIN members = {UserA, UserB}
    /\ AppliedIndex(UserA) = 1
    /\ members[UserA].powerLevelNorm = Num(50)
    /\ members[UserB].powerLevel = 100

(***************************************************************************)
(* C11, members and membership events: a member record exists for a user   *)
(* id exactly when an accepted m.room.member event with that state key has *)
(* been folded; the keys of members are the keys of                        *)
(* stateEvents["m.room.member"], and getMembers() has one record per key.  *)
(***************************************************************************)
RangeOf(s) == {s[i] : i \in 1..Len(s)}

MemberEventKeys ==
    IF "m.room.member" \in DOMAIN stateEvents
    THEN DOMAIN stateEvents["m.room.member"]
    ELSE {}

C11_MembersAreMemberEvents ==
    /\ DOMAIN members =
          {u \in SeenKeys : SlotIndices("m.room.member", u) # {}}
    /\ DOMAIN members = MemberEventKeys
    /\ Len(getMembers(members)) = Cardinality(DOMAIN members)
    /\ {m.userId : m \in RangeOf(getMembers(members))} = DOMAIN members
    /\ \A m \in RangeOf(getMembers(members)) : members[m.userId] = m

C11_Witness ==
    /\ Len(log) = 3
    /\ SlotIndices("m.room.member", UserA) = {1, 3}
    /\ log[2].op = "setStateEvents"
    /\ Delivered(2).type = "m.room.member"
    /\ Delivered(2).roomId = OtherRoom
    /\ Delivered(2).stateKey = UserB
    /\ DOMAIN members = {UserA}
    /\ Len(getMembers(members)) = 1

(***************************************************************************)
(* C12, membership non-deletion: no step removes a key from members, a     *)
(* membership event with "leave" content included.                         *)
(***************************************************************************)
C12_MembersNeverRemoved ==
    [][DOMAIN members \subseteq DOMAIN members']_vars

C12_Witness ==
    /\ Len(log) = 3
    /\ IsAcceptedAt(1) /\ Delivered(1).type = "m.room.member"
    /\ Delivered(1).stateKey = UserA
    /\ Delivered(1).content.membership = "join"
    /\ IsAcceptedAt(2) /\ Delivered(2).type = "m.room.member"
    /\ Delivered(2).stateKey = UserA
    /\ Delivered(2).content.membership = "leave"
    /\ log[3].op = "setTypingEvent"
    /\ UserA \in DOMAIN members

(***************************************************************************)
(* C13, query symmetry: getStateEvents(type) lists exactly the current     *)
(* events of the type over all its state keys, and is the empty list for a *)
(* type never folded; getStateEvents(type, key) of a slot never folded is  *)
(* null, not an empty list, whether or not the type is known.              *)
(***************************************************************************)
FoldedKeys(type) == {k \in SeenKeys : SlotIndices(type, k) # {}}

C13_QuerySymmetry ==
    \A type \in SeenTypes :
        LET all == getStateEventsOfType(stateEvents, type)
        IN  /\ FoldedKeys(type) = {} => all = << >>
            /\ Len(all) = Cardinality(FoldedKeys(type))
            /\ RangeOf(all) =
                  {Delivered(MaxOf(SlotIndices(type, k))) : k \in FoldedKeys(type)}
            /\ \A key \in SeenKeys \ FoldedKeys(type) :
                  /\ getStateEvents(stateEvents, type, key) = Null
                  /\ getStateEvents(stateEvents, type, key) # << >>

C13_Witness ==
    /\ Len(log) = 3
    /\ FoldedKeys("m.room.member") = {UserA, UserB}
    /\ Len(getStateEventsOfType(stateEvents, "m.room.member")) = 2
    /\ getStateEvents(stateEvents, "m.room.member", UserC) = Null
    /\ FoldedKeys("m.room.topic") = {}
    /\ getStateEventsOfType(stateEvents, "m.room.topic") = << >>
    /\ getStateEvents(stateEvents, "m.room.topic", "") = Null

(***************************************************************************)
(* C14, recompute idempotence: folding the m.room.power_levels event that  *)
(* was folded just before once more leaves stateEvents and every member's  *)
(* powerLevel and powerLevelNorm as they were.                             *)
(***************************************************************************)
IsAcceptedEntry(entry) ==
    /\ entry.op = "setStateEvents"
    /\ entry.event.roomId = ThisRoom
    /\ "stateKey" \in DOMAIN entry.event

C14_PowerLevelsIdempotent ==
    [][(/\ Len(log) >= 1
        /\ Len(log') = Len(log) + 1
        /\ Last(log') = Last(log)
        /\ IsAcceptedEntry(Last(log))
        /\ Last(log).event.type = "m.room.power_levels")
       => /\ stateEvents' = stateEvents
          /\ DOMAIN members' = DOMAIN members
          /\ \A u \in DOMAIN members :
                /\ members'[u].powerLevel = members[u].powerLevel
                /\ members'[u].powerLevelNorm = members[u].powerLevelNorm]_vars

C14_Witness ==
    /\ Len(log) = 3
    /\ IsAcceptedAt(1) /\ Delivered(1).type = "m.room.member"
    /\ Delivered(1).stateKey = UserA
    /\ IsAcceptedAt(2) /\ Delivered(2).type = "m.room.power_levels"
    /\ log[3] = log[2]
    /\ members[UserA].powerLevel = 100
    /\ members[UserA].powerLevelNorm = Num(100)

(***************************************************************************)
(* C15, as claimed: setStateEvents never changes the typing field of a     *)
(* member that exists already.                                             *)
(***************************************************************************)
StateCall ==
    /\ Len(log') > Len(log)
    /\ Last(log').op = "setStateEvents"

C15_StateEventsKeepTyping ==
    [][StateCall =>
        \A u \in DOMAIN members :
            u \in DOMAIN members' /\ members'[u].typing = members[u].typing]_vars

(***************************************************************************)
(* C16, as claimed: setTypingEvent with an m.typing event of another room  *)
(* changes no member's typing field.                                       *)
(***************************************************************************)
C16_OtherRoomTypingIgnored ==
    [][(/\ TypingCall
        /\ Last(log').event.type = "m.typing"
        /\ Last(log').event.roomId # ThisRoom)
       => /\ DOMAIN members' = DOMAIN members
          /\ \A u \in DOMAIN members :
                members'[u].typing = members[u].typing]_vars

(***************************************************************************)
(* C17, order independence: with one folded m.room.power_levels event, at  *)
(* the empty state key, and membership events of distinct users, every     *)
(* member has the powerLevel and powerLevelNorm it has when the            *)
(* power-levels event is folded first and when it is folded last: the      *)
(* projection of that event.                                               *)
(***************************************************************************)
EmptyStore == [stateEvents |-> << >>, members |-> << >>]

MemberIndices ==
    {i \in 1..Len(log) : IsAcceptedAt(i) /\ Delivered(i).type = "m.room.member"}

RECURSIVE EventsAt(_, _)
EventsAt(from, indices) ==
    IF from > Len(log) THEN << >>
    ELSE (IF from \in indices THEN <<Delivered(from)>> ELSE << >>)
         \o EventsAt(from + 1, indices)

PowerOf(member) == <<member.powerLevel, member.powerLevelNorm>>

OnePowerLevelsEvent ==
    /\ Cardinality(PowerLevelIndices) = 1
    /\ \A i \in PowerLevelIndices : Delivered(i).stateKey = ""
    /\ \A i, j \in MemberIndices :
          Delivered(i).stateKey = Delivered(j).stateKey => i = j

C17_OrderIndependent ==
    OnePowerLevelsEvent =>
        LET pl == EventsAt(1, PowerLevelIndices)
            joins == EventsAt(1, MemberIndices)
            first == foldAll(ThisRoom, EmptyStore, pl \o joins).members
            last == foldAll(ThisRoom, EmptyStore, joins \o pl).members
        IN  \A u \in DOMAIN members :
                /\ PowerOf(members[u]) = PowerOf(first[u])
                /\ PowerOf(members[u]) = PowerOf(last[u])
                /\ members[u] = setPowerLevel(pl[1], members[u])

C17_Witness ==
    /\ Len(log) = 3
    /\ MemberIndices = {1, 3}
    /\ PowerLevelIndices = {2}
    /\ OnePowerLevelsEvent
    /\ Delivered(1).stateKey = UserA
    /\ Delivered(3).stateKey = UserB
    /\ members[UserA].powerLevel = 50
    /\ members[UserB].powerLevel = 100
    /\ members[UserA].powerLevelNorm = Num(50)

(***************************************************************************)
(* C18, batch independence: a call of setStateEvents leaves the store as   *)
(* the calls with the two halves of the batch, one after the other, would, *)
(* at every place the batch can be cut, and as the call without the        *)
(* skipped events of the batch would.                                      *)
(***************************************************************************)
EventsOf(entries) == [i \in 1..Len(entries) |-> entries[i].event]

StoreNow == [stateEvents |-> stateEvents, members |-> members]

StoreNext == [stateEvents |-> stateEvents', members |-> members']

RECURSIVE OneCallEach(_, _)
OneCallEach(st, events) ==
    IF events = << >> THEN st
    ELSE OneCallEach(foldAll(ThisRoom, st, <<Head(events)>>), Tail(events))

C18_BatchIndependent ==
    [][StateCall =>
        LET batch == EventsOf(NewEntries)
        IN  /\ \A k \in 0..Len(batch) :
                  StoreNext =
                      foldAll(ThisRoom,
                              foldAll(ThisRoom, StoreNow, SubSeq(batch, 1, k)),
                              SubSeq(batch, k + 1, Len(batch)))
            /\ StoreNext = OneCallEach(StoreNow, batch)
            /\ StoreNext = OneCallEach(StoreNow, KeptEvents(NewEntries))]_vars

C18_Witness ==
    /\ Len(log) = 3
    /\ IsAcceptedAt(1) /\ Delivered(1).type = "m.room.power_levels"
    /\ log[2].op = "setStateEvents" /\ IsSkipped(log[2])
    /\ IsAcceptedAt(3) /\ Delivered(3).type = "m.room.member"
    /\ Delivered(3).stateKey = UserA
    /\ members[UserA].powerLevel = 100
    /\ StoreNow = OneCallEach(EmptyStore, <<Delivered(1), Delivered(3)>>)

(***************************************************************************)
(* C19, other types: a call of setStateEvents whose accepted events are    *)
(* neither m.room.member nor m.room.power_levels changes only the slots of *)
(* those events: members and every other slot stay as they were.           *)
(***************************************************************************)
IsOtherType(event) ==
    event.type \notin {"m.room.member", "m.room.power_levels"}

KeptAt(type, key) ==
    {i \in 1..Len(NewEntries) :
        /\ ~IsSkipped(NewEntries[i])
        /\ NewEntries[i].event.type = type
        /\ NewEntries[i].event.stateKey = key}

C19_OtherTypesIndexOnly ==
    [][(/\ StateCall
        /\ \E i \in 1..Len(NewEntries) : ~IsSkipped(NewEntries[i])
        /\ \A i \in 1..Len(NewEntries) :
              ~IsSkipped(NewEntries[i]) => IsOtherType(NewEntries[i].event))
       => /\ members' = members
          /\ \A type \in SeenTypes, key \in SeenKeys :
                getStateEvents(stateEvents', type, key) =
                    IF KeptAt(type, key) = {}
                    THEN getStateEvents(stateEvents, type, key)
                    ELSE NewEntries[MaxOf(KeptAt(type, key))].event
          /\ DOMAIN stateEvents' \subseteq SeenTypes]_vars

C19_Witness ==
    /\ Len(log) = 3
    /\ IsAcceptedAt(1) /\ Delivered(1).type = "m.room.power_levels"
    /\ IsAcceptedAt(2) /\ Delivered(2).type = "m.room.member"
    /\ IsAcceptedAt(3) /\ Delivered(3).type = "m.room.topic"
    /\ members[Delivered(2).stateKey].powerLevel = 100
    /\ getStateEvents(stateEvents, "m.room.topic", "") = Delivered(3)
    /\ getStateEvents(stateEvents, "m.room.member", UserA) = Delivered(2)

(***************************************************************************)
(* C20, typing touches typing only: setTypingEvent never changes           *)
(* stateEvents, never adds a member, never changes a powerLevel or a       *)
(* powerLevelNorm, and an unknown user id in the list does not keep the    *)
(* known ids of the list from being set to typing.                         *)
(***************************************************************************)
C20_TypingOnlyTouchesTyping ==
    [][TypingCall =>
        /\ stateEvents' = stateEvents
        /\ DOMAIN members' = DOMAIN members
        /\ \A u \in DOMAIN members :
              members'[u] = [members[u] EXCEPT !.typing = members'[u].typing]
        /\ (Last(log').event.type = "m.typing")
              => \A u \in ListedIn(Last(log').event) \cap DOMAIN members :
                    members'[u].typing]_vars

C20_Witness ==
    /\ Len(log) = 3
    /\ IsAcceptedAt(1) /\ Delivered(1).type = "m.room.topic"
    /\ IsAcceptedAt(2) /\ Delivered(2).type = "m.room.member"
    /\ IsTypingSignalAt(3)
    /\ Delivered(3).content.user_ids = Array(<<UserC, UserB>>)
    /\ DOMAIN members = {UserB}
    /\ members[UserB].typing
    /\ DOMAIN stateEvents = {"m.room.topic", "m.room.member"}

=============================================================================
